---------------------------- MODULE Spec2Model ----------------------------
(***************************************************************************)
(* minion-tasks: the flow router (dag.py), the flow loader (loader.py),    *)
(* the task store (db.py) and the claim-task command (cli.py).             *)
(*                                                                         *)
(* SpecRouter  the router's pure queries, over every flow of a small       *)
(*             universe of stage names                                     *)
(* SpecWalk    _resolve_skip run one call at a time                        *)
(* Spec        the task store on one connection, one call at a time        *)
(* SpecFault   Spec, and calls that raise between UPDATE and INSERT        *)
(* SpecLog     the audit log of two tasks of one flow, one call at a time  *)
(* SpecConc    transition_task and complete on two connections, one SQL    *)
(*             statement at a time                                         *)
(* SpecLoader  load_flow on two files that differ in their top-level keys  *)
(* SpecMerge   load_flow on a chain of three files that differ in stages   *)
(* SpecInherit load_flow on a chain of three files that differ in name,    *)
(*             description and dead_ends                                   *)
(* SpecReload  load_flow called repeatedly on an unchanged directory       *)
(* SpecStage   the router's queries over every shape of workers rule       *)
(* SpecAssign  the store with two agents                                   *)
(* SpecClaim   cli.py claim-task in two processes, one statement at a time *)
(* SpecCli     cli.py claim-task in one process, one command at a time     *)
(* SpecSkip    load_flow on one file whose skip stage varies               *)
(* SpecList    list_flows, and load_flow of the names it returned          *)
(***************************************************************************)
EXTENDS Integers, Sequences, FiniteSets, TLC

VARIABLES
    files,       \* loader: the flows directory, the parsed YAML of each file in it
    flows,       \* the flows directory: the loaded TaskFlow of each flow name
    q,           \* router: the last query and what each operation returned
    walk,        \* router: the frame of a running _resolve_skip
    projects,    \* store: committed rows of table projects (their ids)
    tasks,       \* store: committed rows of table tasks, by id
    transitions, \* store: committed rows of table transitions, in insertion order
    now,         \* store: the clock datetime('now') reads
    work,        \* store: per connection, the open transaction's uncommitted tables
    call,        \* store: per connection, the call it is in and that call's locals
    ret,         \* store: per connection, what its last finished call returned
    commits      \* store: the committed transition attempts, in commit order

vars == <<files, flows, q, walk, projects, tasks, transitions, now, work, call, ret, commits>>

routerVars == <<files, flows, q, walk>>
storeVars == <<projects, tasks, transitions, now, work, call, ret, commits>>

(***************************************************************************)
(* Values.  Python's None is a string no stage, class or agent is called.  *)
(***************************************************************************)
None == "<None>"

\* Python truthiness of an optional string: None and "" are both falsy.
Truthy(x) == x # None /\ x # ""

\* An optional list of classes (list[str] | None), tagged because a TLA+
\* sequence cannot be compared with a string.
NoList == [tag |-> "None"]
List(s) == [tag |-> "list", val |-> s]

\* Stage.workers: list[str] | dict[str, list[str]] | None
NoWorkers == [tag |-> "None"]
FlatWorkers(s) == [tag |-> "list", val |-> s]
DictWorkers(m) == [tag |-> "dict", val |-> m]

(***************************************************************************)
(* dag.py: Stage, TaskFlow and its queries.                                *)
(***************************************************************************)
Stage(next, fail, workers, terminal, skip) ==
    [next |-> next, fail |-> fail, workers |-> workers, requires |-> <<>>,
     terminal |-> terminal, skip |-> skip]

TaskFlow(stages, dead_ends) == [stages |-> stages, dead_ends |-> dead_ends]

\* self.stages.get(name) is None
NoStage(f, name) == name \notin DOMAIN f.stages

\* _resolve_skip that follows one skip stage only, not the chain.
resolve_skip_one_hop(f, stage_name, seen) ==
    IF stage_name = None THEN None
    ELSE IF NoStage(f, stage_name) THEN stage_name
    ELSE IF f.stages[stage_name].skip THEN f.stages[stage_name].next
    ELSE stage_name

RECURSIVE resolve_skip_seen(_, _, _)
resolve_skip_seen(f, stage_name, seen) ==
    IF stage_name = None THEN None
    ELSE IF stage_name \in seen THEN None
    ELSE IF NoStage(f, stage_name) THEN stage_name
    ELSE IF f.stages[stage_name].skip
         THEN resolve_skip_seen(f, f.stages[stage_name].next, seen \cup {stage_name})
         ELSE stage_name

\* _resolve_skip that leaves the stage it is given even when that stage is
\* not marked skip.
resolve_skip_always_hops(f, stage_name) ==
    IF stage_name = None \/ NoStage(f, stage_name) THEN stage_name
    ELSE resolve_skip_seen(f, f.stages[stage_name].next, {stage_name})

resolve_skip(f, stage_name) == resolve_skip_seen(f, stage_name, {})

\* next_status that routes out of a terminal stage too.
next_status_ignores_terminal(f, current, passed) ==
    IF NoStage(f, current) THEN None
    ELSE LET stage == f.stages[current]
             target == IF passed THEN stage.next ELSE stage.fail
         IN resolve_skip(f, target)

\* next_status that returns the declared target as it is.
next_status_unresolved(f, current, passed) ==
    IF NoStage(f, current) \/ f.stages[current].terminal THEN None
    ELSE IF passed THEN f.stages[current].next ELSE f.stages[current].fail

next_status(f, current, passed) ==
    IF NoStage(f, current) \/ f.stages[current].terminal THEN None
    ELSE LET stage == f.stages[current]
             target == IF passed THEN stage.next ELSE stage.fail
         IN resolve_skip(f, target)

\* workers_for without the fall back to the `default` entry.
workers_for_no_default(f, status, class_required) ==
    IF NoStage(f, status) THEN NoList
    ELSE LET workers == f.stages[status].workers
         IN CASE workers.tag = "None" -> NoList
              [] workers.tag = "list" -> List(workers.val)
              [] OTHER ->
                   IF class_required \in DOMAIN workers.val
                   THEN List(workers.val[class_required])
                   ELSE NoList

workers_for(f, status, class_required) ==
    IF NoStage(f, status) THEN NoList
    ELSE LET workers == f.stages[status].workers
         IN CASE workers.tag = "None" -> NoList
              [] workers.tag = "list" -> List(workers.val)
              [] OTHER ->
                   IF class_required \in DOMAIN workers.val
                   THEN List(workers.val[class_required])
                   ELSE IF "default" \in DOMAIN workers.val
                        THEN List(workers.val["default"])
                        ELSE NoList

\* valid_transitions that lists the moves out of a terminal stage too.
valid_transitions_ignores_terminal(f, current) ==
    IF NoStage(f, current) THEN {}
    ELSE LET stage == f.stages[current]
             next_resolved == resolve_skip(f, stage.next)
         IN f.dead_ends
            \cup (IF Truthy(next_resolved) THEN {next_resolved} ELSE {})
            \cup (IF Truthy(stage.fail) THEN {stage.fail} ELSE {})

\* valid_transitions that offers the dead ends from a name that is no stage.
valid_transitions_from_anywhere(f, current) ==
    IF NoStage(f, current) THEN f.dead_ends
    ELSE IF f.stages[current].terminal THEN {}
    ELSE LET stage == f.stages[current]
             next_resolved == resolve_skip(f, stage.next)
         IN f.dead_ends
            \cup (IF Truthy(next_resolved) THEN {next_resolved} ELSE {})
            \cup (IF Truthy(stage.fail) THEN {stage.fail} ELSE {})

valid_transitions(f, current) ==
    IF NoStage(f, current) \/ f.stages[current].terminal THEN {}
    ELSE LET stage == f.stages[current]
             next_resolved == resolve_skip(f, stage.next)
         IN f.dead_ends
            \cup (IF Truthy(next_resolved) THEN {next_resolved} ELSE {})
            \cup (IF Truthy(stage.fail) THEN {stage.fail} ELSE {})

\* Transition | None: to_status = None stands for "no Transition".
NoTransition == [to_status |-> None, eligible_classes |-> NoList]

\* transition that looks the workers up on the stage the task leaves.
transition_workers_of_current(f, current, class_required, passed) ==
    LET to_status == next_status(f, current, passed)
    IN IF to_status = None THEN NoTransition
       ELSE [to_status |-> to_status,
             eligible_classes |-> workers_for(f, current, class_required)]

transition(f, current, class_required, passed) ==
    LET to_status == next_status(f, current, passed)
    IN IF to_status = None THEN NoTransition
       ELSE [to_status |-> to_status,
             eligible_classes |-> workers_for(f, to_status, class_required)]

is_terminal(f, status) ==
    IF NoStage(f, status) THEN FALSE ELSE f.stages[status].terminal

requires(f, status) ==
    IF NoStage(f, status) THEN <<>> ELSE f.stages[status].requires

(***************************************************************************)
(* loader.py / task-flows: the flow definitions the store loads by name.   *)
(* bugfix is the plain chain, hotfix skips two stages in a row, triage     *)
(* uses what YAML also allows: an empty stage name, a skip stage pointing  *)
(* at itself, a fail edge into a skip stage, an empty class key.           *)
(***************************************************************************)
FlowsDir ==
    [bugfix |-> TaskFlow(
        [open |-> Stage("fixed", None, NoWorkers, FALSE, FALSE),
         fixed |-> Stage("closed", "open",
                         DictWorkers([coder |-> <<"oracle">>, default |-> <<"lead">>]),
                         FALSE, FALSE),
         closed |-> Stage(None, None, FlatWorkers(<<"lead">>), TRUE, FALSE)],
        {"abandoned"}),
     hotfix |-> TaskFlow(
        [open |-> Stage("fixed", None, NoWorkers, FALSE, FALSE),
         fixed |-> Stage("verified", "open", NoWorkers, FALSE, TRUE),
         verified |-> Stage("closed", None, NoWorkers, FALSE, TRUE),
         closed |-> Stage(None, None, FlatWorkers(<<"lead">>), TRUE, FALSE)],
        {"abandoned"}),
     triage |-> TaskFlow(
        [open |-> Stage("fixed", "verified",
                        NoWorkers, FALSE, FALSE),
         fixed |-> Stage("", None,
                         DictWorkers(("" :> <<"recon">>) @@ ("default" :> <<"lead">>)),
                         FALSE, FALSE),
         verified |-> Stage("verified", None, NoWorkers, FALSE, TRUE)],
        {})]

\* A flows directory the store does not read again once its flows are loaded.
NoFiles == <<>>

\* _load_flow that takes the schema's default task type for every task.
load_flow_default(task_type) == flows["bugfix"]

\* TaskDB._load_flow: the flow of a task type.
load_flow(task_type) == flows[task_type]

(***************************************************************************)
(* db.py: the tables and the SQL statements of TaskDB.                     *)
(***************************************************************************)
Conns == {"c1", "c2"}
ProjectIds == {"proj"}
TaskIds == {"T1"}
TaskTypes == DOMAIN FlowsDir
ClassesRequired == {None, "coder"}
Agents == {"fighter"}
ToStatuses == {"fixed", "abandoned", ""}

MaxLog == 3
MaxClock == 1
MaxRequests == 2

\* No transaction open on a connection.
NoTxn == [open |-> FALSE]
Txn(db) == [open |-> TRUE, db |-> db]

Committed == [projects |-> projects, tasks |-> tasks, transitions |-> transitions]

\* What connection c reads: its own uncommitted writes once it has written,
\* else the committed tables.
View(c) == IF work[c].open THEN work[c].db ELSE Committed

\* A database without a write lock: any connection writes at any time.
NoWriteLock(c) == TRUE

\* SQLite has one writer: a connection writes only while no other
\* connection has a transaction open (busy_timeout makes it wait).
LockFree(c) == \A d \in Conns \ {c} : ~work[d].open

\* INSERT INTO projects (id, description)
insert_project(db, id) == [db EXCEPT !.projects = @ \cup {id}]

\* INSERT INTO tasks (...): status defaults to 'open', assigned_to to NULL.
insert_task(db, id, project_id, task_type, class_required) ==
    [db EXCEPT !.tasks = @ @@ (id :>
        [project_id |-> project_id, task_type |-> task_type,
         status |-> "open", class_required |-> class_required,
         assigned_to |-> None])]

\* UPDATE tasks SET status = ?, assigned_to = ? WHERE id = ?
update_task_no_coalesce(db, task_id, to_status, agent) ==
    [db EXCEPT !.tasks[task_id].status = to_status,
               !.tasks[task_id].assigned_to = agent]

\* UPDATE tasks SET status = ?, assigned_to = COALESCE(?, assigned_to) WHERE id = ?
update_task(db, task_id, to_status, agent) ==
    [db EXCEPT !.tasks[task_id].status = to_status,
               !.tasks[task_id].assigned_to = IF agent # None THEN agent ELSE @]

\* UPDATE tasks SET status = ? WHERE id = ?
update_status(db, task_id, to_status) ==
    [db EXCEPT !.tasks[task_id].status = to_status]

\* INSERT INTO transitions (...): id is AUTOINCREMENT, created_at is datetime('now').
insert_transition(db, task_id, from_status, to_status, agent, valid, clock) ==
    [db EXCEPT !.transitions = Append(@,
        [id |-> Len(@) + 1, task_id |-> task_id, from_status |-> from_status,
         to_status |-> to_status, agent |-> agent, valid |-> valid,
         created_at |-> clock])]

\* ORDER BY created_at, id DESC
RowBeforeNewestFirst(a, b) ==
    \/ a.created_at < b.created_at
    \/ a.created_at = b.created_at /\ a.id > b.id

\* ORDER BY created_at, id
RowBefore(a, b) ==
    \/ a.created_at < b.created_at
    \/ a.created_at = b.created_at /\ a.id < b.id

\* SELECT * FROM transitions WHERE task_id = ? ORDER BY created_at, id
get_transitions(db, task_id) ==
    SortSeq(SelectSeq(db.transitions, LAMBDA r : r.task_id = task_id), RowBefore)

\* transition_task that logs every move as valid.
transition_task_locals_always_valid(db, task_id, to_status) ==
    [from_status |-> db.tasks[task_id].status, valid |-> 1]

\* transition_task that logs every move as one from the creation status.
transition_task_locals_from_open(db, task_id, to_status) ==
    LET task == db.tasks[task_id]
        f == load_flow(task.task_type)
        valid_targets == valid_transitions(f, task.status)
    IN [from_status |-> "open",
        valid |-> IF to_status \in valid_targets THEN 1 ELSE 0]

\* What transition_task computes before it writes.
transition_task_locals(db, task_id, to_status) ==
    LET task == db.tasks[task_id]
        from_status == task.status
        f == load_flow(task.task_type)
        valid_targets == valid_transitions(f, from_status)
    IN [from_status |-> from_status,
        valid |-> IF to_status \in valid_targets THEN 1 ELSE 0]

\* The class passed on as the row holds it, NULL included.
class_as_stored(class_required) == class_required

\* task["class_required"] or ""
class_or_empty(class_required) == IF Truthy(class_required) THEN class_required ELSE ""

\* What complete computes before it writes.
complete_locals(db, task_id, passed) ==
    LET task == db.tasks[task_id]
        f == load_flow(task.task_type)
    IN [from_status |-> task.status,
        result |-> transition(f, task.status, class_or_empty(task.class_required), passed)]

(***************************************************************************)
(* db.py: the calls of TaskDB, each run to its end on one connection.      *)
(***************************************************************************)
Idle == [pc |-> "idle"]

Returned(op, task_id) ==
    [op |-> op, task_id |-> task_id, raised |-> "", moved |-> FALSE,
     result |-> NoTransition, rows |-> <<>>]

Raised(op, task_id, error) == [Returned(op, task_id) EXCEPT !.raised = error]

\* One committed attempt to move a task, as the caller made it.
Attempt(c, task_id, to_status) == [conn |-> c, task_id |-> task_id, to_status |-> to_status]

\* self._conn.commit(): everything the connection wrote becomes the database.
Commit(c, db, attempts) ==
    /\ projects' = db.projects
    /\ tasks' = db.tasks
    /\ transitions' = db.transitions
    /\ work' = [work EXCEPT ![c] = NoTxn]
    /\ commits' = commits \o attempts

NoWrite == UNCHANGED <<projects, tasks, transitions, work, commits>>

create_project(c, id) ==
    /\ LockFree(c)
    /\ IF id \in View(c).projects
       THEN /\ ret' = [ret EXCEPT ![c] = Raised("create_project", id, "IntegrityError")]
            /\ NoWrite
       ELSE /\ Commit(c, insert_project(View(c), id), <<>>)
            /\ ret' = [ret EXCEPT ![c] = Returned("create_project", id)]
    /\ UNCHANGED <<now, call, routerVars>>

create_task(c, id, project_id, task_type, class_required) ==
    /\ LockFree(c)
    /\ IF id \in DOMAIN View(c).tasks \/ project_id \notin View(c).projects
       THEN /\ ret' = [ret EXCEPT ![c] = Raised("create_task", id, "IntegrityError")]
            /\ NoWrite
       ELSE /\ Commit(c, insert_task(View(c), id, project_id, task_type, class_required), <<>>)
            /\ ret' = [ret EXCEPT ![c] = Returned("create_task", id)]
    /\ UNCHANGED <<now, call, routerVars>>

\* transition_task without the check that the task exists: the UPDATE
\* matches no row and the move is logged all the same.
transition_task_unchecked(c, task_id, to_status, agent) ==
    /\ LockFree(c)
    /\ Len(View(c).transitions) < MaxLog
    /\ IF task_id \notin DOMAIN View(c).tasks
       THEN /\ Commit(c, insert_transition(View(c), task_id, None, to_status, agent, 0, now),
                      <<Attempt(c, task_id, to_status)>>)
            /\ ret' = [ret EXCEPT ![c] = Returned("transition_task", task_id)]
       ELSE LET l == transition_task_locals(View(c), task_id, to_status)
                updated == update_task(View(c), task_id, to_status, agent)
                inserted == insert_transition(updated, task_id, l.from_status,
                                              to_status, agent, l.valid, now)
            IN /\ Commit(c, inserted, <<Attempt(c, task_id, to_status)>>)
               /\ ret' = [ret EXCEPT ![c] =
                            [Returned("transition_task", task_id) EXCEPT !.moved = TRUE]]
    /\ UNCHANGED <<now, call, routerVars>>

transition_task(c, task_id, to_status, agent) ==
    /\ LockFree(c)
    /\ Len(View(c).transitions) < MaxLog
    /\ IF task_id \notin DOMAIN View(c).tasks
       THEN /\ ret' = [ret EXCEPT ![c] = Raised("transition_task", task_id, "ValueError")]
            /\ NoWrite
       ELSE LET l == transition_task_locals(View(c), task_id, to_status)
                updated == update_task(View(c), task_id, to_status, agent)
                inserted == insert_transition(updated, task_id, l.from_status,
                                              to_status, agent, l.valid, now)
            IN /\ Commit(c, inserted, <<Attempt(c, task_id, to_status)>>)
               /\ ret' = [ret EXCEPT ![c] =
                            [Returned("transition_task", task_id) EXCEPT !.moved = TRUE]]
    /\ UNCHANGED <<now, call, routerVars>>

\* The tables after complete's UPDATE and INSERT (unchanged when the flow
\* gives no transition).
complete_db(db, task_id, agent, passed, clock) ==
    LET l == complete_locals(db, task_id, passed)
        updated == update_status(db, task_id, l.result.to_status)
    IN IF l.result = NoTransition THEN db
       ELSE insert_transition(updated, task_id, l.from_status,
                              l.result.to_status, agent, 1, clock)

\* complete that makes the agent the assignee before it asks the flow.
complete_assigns_first(c, task_id, agent, passed) ==
    /\ LockFree(c)
    /\ Len(View(c).transitions) < MaxLog
    /\ IF task_id \notin DOMAIN View(c).tasks
       THEN /\ ret' = [ret EXCEPT ![c] = Raised("complete", task_id, "ValueError")]
            /\ NoWrite
       ELSE LET l == complete_locals(View(c), task_id, passed)
                assigned == update_task(View(c), task_id, l.from_status, agent)
            IN IF l.result = NoTransition
               THEN /\ Commit(c, assigned, <<>>)
                    /\ ret' = [ret EXCEPT ![c] = Returned("complete", task_id)]
               ELSE /\ Commit(c, complete_db(assigned, task_id, agent, passed, now),
                              <<Attempt(c, task_id, l.result.to_status)>>)
                    /\ ret' = [ret EXCEPT ![c] =
                                 [Returned("complete", task_id) EXCEPT
                                    !.moved = TRUE, !.result = l.result]]
    /\ UNCHANGED <<now, call, routerVars>>

complete(c, task_id, agent, passed) ==
    /\ LockFree(c)
    /\ Len(View(c).transitions) < MaxLog
    /\ IF task_id \notin DOMAIN View(c).tasks
       THEN /\ ret' = [ret EXCEPT ![c] = Raised("complete", task_id, "ValueError")]
            /\ NoWrite
       ELSE LET l == complete_locals(View(c), task_id, passed)
            IN IF l.result = NoTransition
               THEN /\ ret' = [ret EXCEPT ![c] = Returned("complete", task_id)]
                    /\ NoWrite
               ELSE /\ Commit(c, complete_db(View(c), task_id, agent, passed, now),
                              <<Attempt(c, task_id, l.result.to_status)>>)
                    /\ ret' = [ret EXCEPT ![c] =
                                 [Returned("complete", task_id) EXCEPT
                                    !.moved = TRUE, !.result = l.result]]
    /\ UNCHANGED <<now, call, routerVars>>

\* complete when its INSERT raises after its UPDATE ran (an agent sqlite3
\* cannot bind, an I/O error, an interrupt): the UPDATE stays in the
\* connection's open transaction, nothing is committed, nothing is rolled
\* back.  transition_task binds the same agent in its UPDATE first, so there
\* a bad value raises before anything is written.
complete_raises(c, task_id, agent, passed) ==
    /\ LockFree(c)
    /\ task_id \in DOMAIN View(c).tasks
    /\ LET l == complete_locals(View(c), task_id, passed)
       IN /\ l.result # NoTransition
          /\ work' = [work EXCEPT ![c] =
                        Txn(update_status(View(c), task_id, l.result.to_status))]
    /\ ret' = [ret EXCEPT ![c] = Raised("complete", task_id, "Error")]
    /\ UNCHANGED <<projects, tasks, transitions, commits, now, call, routerVars>>

get_transitions_call(c, task_id) ==
    /\ ret' = [ret EXCEPT ![c] =
                 [Returned("get_transitions", task_id) EXCEPT
                    !.rows = get_transitions(View(c), task_id)]]
    /\ UNCHANGED <<projects, tasks, transitions, work, commits, now, call, routerVars>>

\* Time passes between calls.
Tick ==
    /\ now < MaxClock
    /\ now' = now + 1
    /\ UNCHANGED <<projects, tasks, transitions, work, commits, call, ret, routerVars>>

\* TaskDB.__init__ on a new database file: the schema, no rows.
StoreInit ==
    /\ projects = {}
    /\ tasks = <<>>
    /\ transitions = <<>>
    /\ now = 0
    /\ work = [c \in Conns |-> NoTxn]
    /\ call = [c \in Conns |-> Idle]
    /\ ret = [c \in Conns |-> Returned("init", None)]
    /\ commits = <<>>

(***************************************************************************)
(* The flows the router is queried on: every TaskFlow whose stages are     *)
(* named in StageNames and whose next/fail targets are a stage name, the   *)
(* empty string (a name that is never a stage) or None.                    *)
(***************************************************************************)
StageNames == {"open", "fixed"}
Targets == StageNames \cup {""}
DeadEndSets == {{}, {"abandoned"}, {"fixed"}}
WorkerRules == {NoWorkers, FlatWorkers(<<"lead">>)}
Classes == {"coder"}

Stages ==
    [next : Targets \cup {None}, fail : Targets \cup {None},
     workers : WorkerRules, requires : {<<>>}, terminal : BOOLEAN, skip : BOOLEAN]

StageMaps == UNION {[names -> Stages] : names \in SUBSET StageNames}

RouterFlows == [stages : StageMaps, dead_ends : DeadEndSets]

NoQuery == [asked |-> FALSE]

\* The flow the router's queries run against.
flow == load_flow("base")

\* A database holding one task of flow "base" that rests in `status`.
TaskAt(status, class_required) ==
    [projects |-> {"proj"},
     tasks |-> ("T1" :> [project_id |-> "proj", task_type |-> "base", status |-> status,
                         class_required |-> class_required, assigned_to |-> None]),
     transitions |-> <<>>]

\* One call of each query of TaskFlow with the same arguments, and of
\* TaskDB.complete on a task that rests in the stage asked about.
Ask(f, name, class_required, passed) ==
    [asked |-> TRUE, name |-> name, passed |-> passed,
     class_required |-> class_required,
     resolved |-> resolve_skip(f, name),
     next |-> next_status(f, name, passed),
     valid |-> valid_transitions(f, name),
     trans |-> transition(f, name, class_required, passed),
     workers |-> workers_for(f, name, class_required),
     terminal |-> is_terminal(f, name),
     requires |-> requires(f, name),
     completed |-> complete_db(TaskAt(name, class_required), "T1", "fighter", passed, 0)]

Query ==
    /\ \E name \in Targets, passed \in BOOLEAN, class_required \in Classes :
          q' = Ask(flow, name, class_required, passed)
    /\ UNCHANGED <<files, flows, walk, storeVars>>

NoWalk == [state |-> "idle"]

RouterInit ==
    /\ files = NoFiles
    /\ \E f \in RouterFlows : flows = [base |-> f]
    /\ q = NoQuery
    /\ walk = NoWalk
    /\ StoreInit

RouterNext == Query

SpecRouter == RouterInit /\ [][RouterNext]_vars

(***************************************************************************)
(* _resolve_skip one call at a time: `walk` is the frame of the running    *)
(* call (its stage_name and the seen set it shares with its callers).      *)
(* Flows differ here only in what _resolve_skip reads: which names are     *)
(* stages, and each stage's skip and next.                                 *)
(***************************************************************************)
WalkNames == {"open", "fixed", "verified"}

WalkStages ==
    [next : WalkNames \cup {"", None}, fail : {None}, workers : {NoWorkers},
     requires : {<<>>}, terminal : {FALSE}, skip : BOOLEAN]

WalkFlows ==
    [stages : UNION {[names -> WalkStages] : names \in SUBSET WalkNames},
     dead_ends : {{}}]

MaxCalls == 6

\* The outermost call: seen is None, so a new set.
StartWalk(name) ==
    [state |-> "running", start |-> name, stage_name |-> name, seen |-> {},
     visited |-> <<>>, calls |-> 0, revisit |-> FALSE, result |-> None]

WalkDone(w, result) == [w EXCEPT !.state = "done", !.result = result]

\* One call of _resolve_skip that never looks at seen.
resolve_skip_call_unseen(f, w) ==
    LET called == [w EXCEPT !.calls = @ + 1]
        looked == [called EXCEPT !.visited = Append(@, w.stage_name)]
    IN IF w.stage_name = None THEN WalkDone(called, None)
       ELSE IF NoStage(f, w.stage_name) THEN WalkDone(looked, w.stage_name)
       ELSE IF f.stages[w.stage_name].skip
            THEN [looked EXCEPT !.stage_name = f.stages[w.stage_name].next]
            ELSE WalkDone(looked, w.stage_name)

\* One call of _resolve_skip: it returns, or calls itself on stage.next.
resolve_skip_call(f, w) ==
    LET called == [w EXCEPT !.calls = @ + 1]
        looked == [called EXCEPT !.seen = @ \cup {w.stage_name},
                                 !.visited = Append(@, w.stage_name)]
    IN IF w.stage_name = None THEN WalkDone(called, None)
       ELSE IF w.stage_name \in w.seen
            THEN WalkDone([called EXCEPT !.revisit = TRUE], None)
       ELSE IF NoStage(f, w.stage_name) THEN WalkDone(looked, w.stage_name)
       ELSE IF f.stages[w.stage_name].skip
            THEN [looked EXCEPT !.stage_name = f.stages[w.stage_name].next]
            ELSE WalkDone(looked, w.stage_name)

WalkStart ==
    /\ walk.state = "idle"
    /\ \E name \in WalkNames \cup {"", None} : walk' = StartWalk(name)
    /\ UNCHANGED <<files, flows, q, storeVars>>

WalkStep ==
    /\ walk.state = "running"
    /\ walk.calls < MaxCalls
    /\ walk' = resolve_skip_call(flow, walk)
    /\ UNCHANGED <<files, flows, q, storeVars>>

WalkInit ==
    /\ files = NoFiles
    /\ \E f \in WalkFlows : flows = [base |-> f]
    /\ q = NoQuery
    /\ walk = NoWalk
    /\ StoreInit

WalkNext == WalkStart \/ WalkStep

\* A call that has started runs on: the interpreter does not stop mid-call.
SpecWalk == WalkInit /\ [][WalkNext]_vars /\ WF_vars(WalkStep)

NoDuplicates(seq) == \A i, j \in 1..Len(seq) : seq[i] = seq[j] => i = j

\* C3: on every flow, cyclic skip chains included, _resolve_skip looks up
\* each stage at most once, makes at most one call more than the flow has
\* stages, returns None when the chain comes back to a name it has seen,
\* returns what resolve_skip (as next_status and valid_transitions call it)
\* returns, and every started resolution finishes.
C3_Terminates ==
    /\ [](walk.state # "idle" =>
            /\ NoDuplicates(walk.visited)
            /\ walk.calls <= Cardinality(DOMAIN flow.stages) + 1
            /\ walk.revisit => walk.state = "done" /\ walk.result = None
            /\ walk.state = "done" => walk.result = resolve_skip(flow, walk.start))
    /\ (walk.state = "running") ~> (walk.state = "done")

\* C3 witness: three skip stages in a cycle, each looked up once, then None.
C3_Witness ==
    /\ walk.state = "done" /\ walk.revisit /\ walk.result = None
    /\ Len(walk.visited) = 3 /\ walk.calls = 4

(***************************************************************************)
(* Claims about the router, under SpecRouter.                              *)
(***************************************************************************)
IsStage(f, name) == name \in DOMAIN f.stages
IsSkipStage(f, name) == IsStage(f, name) /\ f.stages[name].skip

\* C1: next_status(current, passed) is None when current is not a stage of
\* the flow or is terminal; otherwise it takes the stage's next (passed) or
\* fail (not passed), is None when that target is absent, and else is
\* resolve_skip of that target.
C1_NextStatus ==
    q.asked =>
        IF ~IsStage(flow, q.name) THEN q.next = None
        ELSE IF flow.stages[q.name].terminal THEN q.next = None
        ELSE LET selected == IF q.passed THEN flow.stages[q.name].next
                                         ELSE flow.stages[q.name].fail
             IN IF selected = None THEN q.next = None
                ELSE q.next = resolve_skip(flow, selected)

\* C1 witness: a failed task is routed along `fail` through a skip stage.
C1_Witness ==
    /\ q.asked /\ ~q.passed /\ q.name = "open"
    /\ IsStage(flow, "open") /\ ~flow.stages["open"].terminal
    /\ flow.stages["open"].fail = "fixed" /\ flow.stages["open"].next = None
    /\ IsSkipStage(flow, "fixed")
    /\ q.next = ""

\* C2: resolve_skip(name) is name when the flow has no such stage, is name
\* when the stage is not marked skip, and otherwise is what resolving the
\* skip stage's next gives (None when that next is absent).
C2_ResolveSkip ==
    q.asked =>
        IF ~IsStage(flow, q.name) THEN q.resolved = q.name
        ELSE IF ~flow.stages[q.name].skip THEN q.resolved = q.name
        ELSE IF flow.stages[q.name].next = None THEN q.resolved = None
        ELSE q.resolved = resolve_skip(flow, flow.stages[q.name].next)

\* C2 witness: a skip stage whose next is a skip stage too, resolved to a name.
C2_Witness ==
    /\ q.asked /\ q.name = "fixed"
    /\ IsSkipStage(flow, "fixed") /\ IsSkipStage(flow, "open")
    /\ flow.stages["fixed"].next = "open" /\ flow.stages["open"].next = ""
    /\ q.resolved = ""

\* v is None or a name that is no skip-marked stage of f.
NotSkip(f, v) == v = None \/ ~IsSkipStage(f, v)

C5_ValidTransitions ==
    q.asked =>
        IF ~IsStage(flow, q.name) THEN q.valid = {}
        ELSE IF flow.stages[q.name].terminal THEN q.valid = {}
        ELSE LET stage == flow.stages[q.name]
                 next_resolved == resolve_skip(flow, stage.next)
             IN q.valid = flow.dead_ends
                          \cup (IF next_resolved # None THEN {next_resolved} ELSE {})
                          \cup (IF stage.fail # None THEN {stage.fail} ELSE {})

(***************************************************************************)
(* The store, one call at a time on one connection.                        *)
(***************************************************************************)
Init ==
    /\ files = NoFiles
    /\ flows = FlowsDir
    /\ q = NoQuery
    /\ walk = NoWalk
    /\ StoreInit

Next ==
    \/ \E id \in ProjectIds : create_project("c1", id)
    \/ \E id \in TaskIds, project_id \in ProjectIds, task_type \in TaskTypes,
          class_required \in ClassesRequired :
          create_task("c1", id, project_id, task_type, class_required)
    \/ \E task_id \in TaskIds, to_status \in ToStatuses, agent \in Agents \cup {None} :
          transition_task("c1", task_id, to_status, agent)
    \/ \E task_id \in TaskIds, agent \in Agents, passed \in BOOLEAN :
          complete("c1", task_id, agent, passed)
    \/ \E task_id \in TaskIds : get_transitions_call("c1", task_id)

Spec == Init /\ [][Next]_vars

(***************************************************************************)
(* The store when an INSERT can raise: complete_raises, and a second       *)
(* project so that a later call commits on the same connection.            *)
(***************************************************************************)
FaultNext ==
    \/ Next
    \/ \E task_id \in TaskIds, agent \in Agents, passed \in BOOLEAN :
          complete_raises("c1", task_id, agent, passed)
    \/ create_project("c1", "ops")

SpecFault == Init /\ [][FaultNext]_vars

(***************************************************************************)
(* The audit log of two tasks: the calls that write and read the log, on   *)
(* two tasks of the bugfix flow.                                           *)
(***************************************************************************)
LogTaskIds == {"T1", "T2"}
LogToStatuses == {"fixed", "abandoned"}

LogNext ==
    \/ create_project("c1", "proj")
    \/ \E id \in LogTaskIds : create_task("c1", id, "proj", "bugfix", None)
    \/ \E task_id \in LogTaskIds, to_status \in LogToStatuses :
          transition_task("c1", task_id, to_status, None)
    \/ \E task_id \in LogTaskIds, passed \in BOOLEAN :
          complete("c1", task_id, "fighter", passed)
    \/ \E task_id \in LogTaskIds : get_transitions_call("c1", task_id)
    \/ Tick

SpecLog == Init /\ [][LogNext]_vars

(***************************************************************************)
(* Claims about the store, one call at a time.                             *)
(***************************************************************************)
Last(seq) == seq[Len(seq)]

LogOf(db, task_id) == SelectSeq(db.transitions, LAMBDA r : r.task_id = task_id)

CompleteMoves(class_of(_)) ==
    \A task_id \in TaskIds, agent \in Agents, passed \in BOOLEAN :
        (/\ task_id \in DOMAIN tasks
         /\ next_status(flows[tasks[task_id].task_type], tasks[task_id].status, passed) # None
         /\ complete("c1", task_id, agent, passed)) =>
            LET before == tasks[task_id]
                f == flows[before.task_type]
                new_status == next_status(f, before.status, passed)
                row == Last(transitions')
            IN /\ tasks'[task_id].status = new_status
               /\ Len(transitions') = Len(transitions) + 1
               /\ row.task_id = task_id
               /\ row.from_status = before.status
               /\ row.to_status = new_status
               /\ row.valid = 1
               /\ ret'["c1"].result.to_status = new_status
               /\ ret'["c1"].result.eligible_classes =
                      workers_for(f, new_status, class_of(before.class_required))

AsStored(class_required) == class_required
EmptyForNone(class_required) == IF class_required = None THEN "" ELSE class_required

\* C7 as claimed: complete on a task whose flow gives a transition sets the
\* status to next_status(current, passed), appends one record (previous
\* status, new status, valid = 1) and returns the eligible classes
\* workers_for(new status, the task's required class).
C7_AsClaimed == [][CompleteMoves(AsStored)]_vars

\* C7 as amended: the same, with the eligible classes looked up for the
\* task's required class, or for the empty string when the task has none.
C7_Complete == [][CompleteMoves(EmptyForNone)]_vars

\* C7 witness: a task without a required class was completed into a stage
\* whose workers rule has an entry for the empty string, and got that entry.
C7_Witness ==
    /\ "T1" \in DOMAIN tasks
    /\ tasks["T1"].class_required = None /\ tasks["T1"].task_type = "triage"
    /\ tasks["T1"].status = "fixed"
    /\ ret["c1"].op = "complete"
    /\ ret["c1"].result = [to_status |-> "fixed", eligible_classes |-> List(<<"recon">>)]
    /\ Len(transitions) = 1 /\ transitions[1].to_status = "fixed"

\* C8: in every committed state, a task's status changed exactly when a
\* record of that change (from the old status to the new one) was
\* committed with it, also after a call that raised between its UPDATE and
\* its INSERT.
C8_Atomic ==
    [][\A task_id \in DOMAIN tasks :
          LET added == SubSeq(transitions', Len(transitions) + 1, Len(transitions'))
              mine == SelectSeq(added, LAMBDA r : r.task_id = task_id)
          IN /\ task_id \in DOMAIN tasks'
             /\ tasks'[task_id].status # tasks[task_id].status =>
                   /\ mine # <<>>
                   /\ mine[1].from_status = tasks[task_id].status
             /\ mine # <<>> => Last(mine).to_status = tasks'[task_id].status
      ]_vars

\* C9: no step changes or removes a committed record; transition_task and
\* a complete that finds a transition each append exactly one; and
\* get_transitions gives a task's records in the order they were created.
C9_AppendOnly ==
    /\ [](\A task_id \in DOMAIN tasks :
            get_transitions(Committed, task_id) = LogOf(Committed, task_id))
    /\ [](ret["c1"].op = "get_transitions" =>
            ret["c1"].rows = LogOf(Committed, ret["c1"].task_id))
    /\ [][/\ Len(transitions') >= Len(transitions)
          /\ SubSeq(transitions', 1, Len(transitions)) = transitions
          /\ \A task_id \in DOMAIN tasks :
                /\ \A to_status \in ToStatuses, agent \in Agents \cup {None} :
                      transition_task("c1", task_id, to_status, agent) =>
                          /\ Len(transitions') = Len(transitions) + 1
                          /\ Last(transitions').task_id = task_id
                /\ \A agent \in Agents, passed \in BOOLEAN :
                      (complete("c1", task_id, agent, passed) /\ ret'["c1"].moved) =>
                          /\ Len(transitions') = Len(transitions) + 1
                          /\ Last(transitions').task_id = task_id
         ]_vars

\* C9 witness: T1 moved, then T2, then T1 again within the same second as its
\* first move, and T1's two records were read back in the order they
\* were created.
C9_Witness ==
    /\ ret["c1"].op = "get_transitions" /\ ret["c1"].task_id = "T1"
    /\ Len(transitions) = 3 /\ transitions[2].task_id = "T2"
    /\ Len(ret["c1"].rows) = 2
    /\ ret["c1"].rows[1].created_at = ret["c1"].rows[2].created_at
    /\ ret["c1"].rows[1].id = 1 /\ ret["c1"].rows[2].id = 3

(***************************************************************************)
(* db.py on two connections: transition_task and complete run statement    *)
(* by statement, call[c] holding the position and the locals of the call   *)
(* that connection c is in.                                                *)
(***************************************************************************)
InFlight == {c \in Conns : call[c].pc # "idle"}

\* task = self.get_task(task_id) ... is_valid = to_status in valid_targets
transition_task_read(c, task_id, to_status, agent) ==
    /\ call[c].pc = "idle"
    /\ Len(transitions) + Cardinality(InFlight) < MaxRequests
    /\ IF task_id \notin DOMAIN View(c).tasks
       THEN /\ ret' = [ret EXCEPT ![c] = Raised("transition_task", task_id, "ValueError")]
            /\ UNCHANGED call
       ELSE LET l == transition_task_locals(View(c), task_id, to_status)
            IN /\ call' = [call EXCEPT ![c] =
                             [pc |-> "update", op |-> "transition_task", task_id |-> task_id,
                              to_status |-> to_status, agent |-> agent, assign |-> agent,
                              from_status |-> l.from_status, valid |-> l.valid,
                              result |-> NoTransition]]
               /\ UNCHANGED ret
    /\ UNCHANGED <<projects, tasks, transitions, work, commits, now, routerVars>>

\* task = self.get_task(task_id) ... result = flow.transition(...)
complete_read(c, task_id, agent, passed) ==
    /\ call[c].pc = "idle"
    /\ Len(transitions) + Cardinality(InFlight) < MaxRequests
    /\ IF task_id \notin DOMAIN View(c).tasks
       THEN /\ ret' = [ret EXCEPT ![c] = Raised("complete", task_id, "ValueError")]
            /\ UNCHANGED call
       ELSE LET l == complete_locals(View(c), task_id, passed)
            IN IF l.result = NoTransition
               THEN /\ ret' = [ret EXCEPT ![c] = Returned("complete", task_id)]
                    /\ UNCHANGED call
               ELSE /\ call' = [call EXCEPT ![c] =
                                  [pc |-> "update", op |-> "complete", task_id |-> task_id,
                                   to_status |-> l.result.to_status, agent |-> agent,
                                   assign |-> None,
                                   from_status |-> l.from_status, valid |-> 1,
                                   result |-> l.result]]
                    /\ UNCHANGED ret
    /\ UNCHANGED <<projects, tasks, transitions, work, commits, now, routerVars>>

\* self._conn.execute("UPDATE tasks ..."): opens the connection's write
\* transaction, waiting while another connection holds the write lock.
execute_update(c) ==
    /\ call[c].pc = "update"
    /\ LockFree(c)
    /\ work' = [work EXCEPT ![c] =
                  Txn(update_task(View(c), call[c].task_id, call[c].to_status,
                                  call[c].assign))]
    /\ call' = [call EXCEPT ![c].pc = "insert"]
    /\ UNCHANGED <<projects, tasks, transitions, commits, now, ret, routerVars>>

\* self._conn.execute("INSERT INTO transitions ...")
execute_insert(c) ==
    /\ call[c].pc = "insert"
    /\ work' = [work EXCEPT ![c] =
                  Txn(insert_transition(View(c), call[c].task_id, call[c].from_status,
                                        call[c].to_status, call[c].agent,
                                        call[c].valid, now))]
    /\ call' = [call EXCEPT ![c].pc = "commit"]
    /\ UNCHANGED <<projects, tasks, transitions, commits, now, ret, routerVars>>

\* self._conn.commit() and the return.
commit(c) ==
    /\ call[c].pc = "commit"
    /\ Commit(c, View(c), <<Attempt(c, call[c].task_id, call[c].to_status)>>)
    /\ ret' = [ret EXCEPT ![c] =
                 [Returned(call[c].op, call[c].task_id) EXCEPT
                    !.moved = TRUE, !.result = call[c].result]]
    /\ call' = [call EXCEPT ![c] = Idle]
    /\ UNCHANGED <<now, routerVars>>

\* A database in which create_project and create_task have made one task.
ConcInit ==
    /\ files = NoFiles /\ flows = FlowsDir /\ q = NoQuery /\ walk = NoWalk
    /\ \E task_type \in TaskTypes, class_required \in ClassesRequired :
          LET db == insert_task(insert_project([projects |-> {}, tasks |-> <<>>,
                                                transitions |-> <<>>], "proj"),
                                "T1", "proj", task_type, class_required)
          IN projects = db.projects /\ tasks = db.tasks /\ transitions = db.transitions
    /\ now = 0
    /\ work = [c \in Conns |-> NoTxn]
    /\ call = [c \in Conns |-> Idle]
    /\ ret = [c \in Conns |-> Returned("init", None)]
    /\ commits = <<>>

ConcStep(c) ==
    \/ \E task_id \in TaskIds, to_status \in ToStatuses, agent \in Agents :
          transition_task_read(c, task_id, to_status, agent)
    \/ \E task_id \in TaskIds, agent \in Agents, passed \in BOOLEAN :
          complete_read(c, task_id, agent, passed)
    \/ execute_update(c)
    \/ execute_insert(c)
    \/ commit(c)

ConcNext == \E c \in Conns : ConcStep(c)

SpecConc ==
    /\ ConcInit /\ [][ConcNext]_vars
    /\ \A c \in Conns : WF_vars(execute_update(c) \/ execute_insert(c) \/ commit(c))

\* C10: with transition_task and complete running on two connections at
\* once, the committed log holds one record per committed attempt, in the
\* order the attempts were committed; the task's status is the to_status of
\* the last record; and every call that got past its read commits and
\* returns.
C10_Serialized ==
    /\ [](/\ Len(transitions) = Len(commits)
          /\ \A i \in 1..Len(transitions) :
                /\ transitions[i].id = i
                /\ transitions[i].task_id = commits[i].task_id
                /\ transitions[i].to_status = commits[i].to_status
          /\ \A task_id \in DOMAIN tasks :
                LogOf(Committed, task_id) # <<>> =>
                    tasks[task_id].status = Last(LogOf(Committed, task_id)).to_status
          /\ \A c \in Conns :
                (call[c].pc = "idle" /\ ret[c].raised = "" /\ ret[c].moved) =>
                    \E i \in 1..Len(transitions) :
                        /\ commits[i].conn = c
                        /\ transitions[i].task_id = ret[c].task_id)
    /\ \A c \in Conns : (call[c].pc # "idle") ~> (call[c].pc = "idle")

\* C10 witness: both connections read the task in "open" before either
\* wrote; both attempts are in the log, in commit order, and the later one
\* gives the status.
C10_Witness ==
    /\ Len(transitions) = 2
    /\ commits[1].conn # commits[2].conn
    /\ transitions[1].from_status = "open" /\ transitions[2].from_status = "open"
    /\ transitions[1].to_status = "fixed" /\ transitions[2].to_status = "abandoned"
    /\ tasks["T1"].status = "abandoned"
    /\ \A c \in Conns : call[c].pc = "idle"

(***************************************************************************)
(* loader.py: a parsed YAML mapping is a function on the keys it declares. *)
(***************************************************************************)
EmptyDict == <<>>

\* d.get(k, default)
Get(d, k, default) == IF k \in DOMAIN d THEN d[k] ELSE default

\* {**b}: the first mapping is dropped.
DictSecondOnly(a, b) == b

\* {**a, **b} with the first mapping winning on the keys both have.
DictFirstWins(a, b) ==
    [k \in DOMAIN a \cup DOMAIN b |-> IF k \in DOMAIN a THEN a[k] ELSE b[k]]

\* {**a, **b}
DictMerge(a, b) ==
    [k \in DOMAIN a \cup DOMAIN b |-> IF k \in DOMAIN b THEN b[k] ELSE a[k]]

\* d[k] = v
DictSet(d, k, v) == [x \in DOMAIN d \cup {k} |-> IF x = k THEN v ELSE d[x]]

\* d.pop(k, None)
DictPop(d, k) == [x \in DOMAIN d \ {k} |-> d[x]]

\* cfg.get(k) as a condition, for the boolean keys terminal and skip.
Flag(cfg, k) == k \in DOMAIN cfg /\ cfg[k]

REQUIRED_TOP_KEYS == {"name", "description", "stages"}
VALID_STAGE_KEYS == {"description", "next", "fail", "workers", "requires", "terminal", "skip"}

\* The interpreter's recursion limit, in _resolve_inheritance frames.
MaxDepth == 3

\* _merge_stages, with the child's stage replacing the parent's stage whole.
merge_stages_whole(base_stages, override_stages) ==
    IF DOMAIN override_stages = {} THEN base_stages
    ELSE [name \in DOMAIN base_stages \cup DOMAIN override_stages |->
            IF name \in DOMAIN override_stages THEN override_stages[name]
            ELSE base_stages[name]]

\* _merge_stages; override_stages None and {} are both `not override_stages`.
merge_stages(base_stages, override_stages) ==
    IF DOMAIN override_stages = {} THEN base_stages
    ELSE [name \in DOMAIN base_stages \cup DOMAIN override_stages |->
            IF name \in DOMAIN base_stages
            THEN IF name \in DOMAIN override_stages
                 THEN DictMerge(base_stages[name], override_stages[name])
                 ELSE base_stages[name]
            ELSE override_stages[name]]

\* What _resolve_inheritance gives: the merged mapping, or the exception
\* it raised; loads lists the parent files it read.
Resolved(raw, loads) == [error |-> "", detail |-> "", raw |-> raw, loads |-> loads]
\* A parent that cannot be resolved taken for an empty definition.
ResolveFailedAsEmpty(error, detail, loads) == Resolved(EmptyDict, loads)

ResolveFailed(error, detail, loads) ==
    [error |-> error, detail |-> detail, raw |-> EmptyDict, loads |-> loads]

RECURSIVE resolve_inheritance(_, _, _)
resolve_inheritance(dir, raw, depth) ==
    LET parent_name == Get(raw, "inherits", None)
    IN IF ~Truthy(parent_name) THEN Resolved(raw, <<>>)
       ELSE IF parent_name \notin DOMAIN dir
            THEN ResolveFailed("FileNotFoundError", parent_name, <<>>)
       ELSE IF depth >= MaxDepth
            THEN ResolveFailed("RecursionError", parent_name, <<parent_name>>)
       ELSE LET parent == resolve_inheritance(dir, dir[parent_name], depth + 1)
                loads == <<parent_name>> \o parent.loads
            IN IF parent.error # "" THEN [parent EXCEPT !.loads = loads]
               ELSE LET merged_stages ==
                            merge_stages(Get(parent.raw, "stages", EmptyDict),
                                         Get(raw, "stages", EmptyDict))
                        result == DictSet(DictMerge(parent.raw, raw),
                                          "stages", merged_stages)
                    IN Resolved(DictPop(result, "inherits"), loads)

\* A stage _validate passes over, or accepts.
StagePasses(cfg) == Flag(cfg, "skip") \/ Flag(cfg, "terminal") \/ "next" \in DOMAIN cfg

\* _validate: "" when it returns, else what the ValueError is about.
validate(raw) ==
    IF REQUIRED_TOP_KEYS \ DOMAIN raw # {} THEN "missing required keys"
    ELSE IF DOMAIN raw["stages"] = {} THEN "no stages"
    ELSE IF \E stage_name \in DOMAIN raw["stages"] : ~StagePasses(raw["stages"][stage_name])
         THEN "must have 'next'"
    ELSE ""

build_stage(cfg) ==
    [Stage(Get(cfg, "next", None), Get(cfg, "fail", None),
           Get(cfg, "workers", NoWorkers),
           Get(cfg, "terminal", FALSE), Get(cfg, "skip", FALSE))
       EXCEPT !.requires = Get(cfg, "requires", <<>>)]

\* f"_{task_type}.yaml" if task_type == "base" else f"{task_type}.yaml"
FileOf(task_type) == IF task_type = "base" THEN "_base" ELSE task_type

NoFlow == TaskFlow(EmptyDict, {})

Loaded(name, f, raw, loads) ==
    [error |-> "", detail |-> "", name |-> name, flow |-> f, raw |-> raw, loads |-> loads]
LoadFailed(error, detail, loads) ==
    [error |-> error, detail |-> detail, name |-> None, flow |-> NoFlow,
     raw |-> EmptyDict, loads |-> loads]

\* load_flow with a one-entry cache that is not keyed by the name: it hands
\* back the flow it loaded last.
load_flow_cached(dir, task_type) ==
    IF q.asked /\ "result" \in DOMAIN q /\ q.result.error = "" THEN q.result
    ELSE LET stem == FileOf(task_type)
         IN IF stem \notin DOMAIN dir THEN LoadFailed("FileNotFoundError", task_type, <<>>)
            ELSE LET r == resolve_inheritance(dir, dir[stem], 0)
                     loads == <<stem>> \o r.loads
                 IN IF r.error # "" THEN LoadFailed(r.error, r.detail, loads)
                    ELSE IF validate(r.raw) # "" THEN LoadFailed("ValueError", validate(r.raw), loads)
                    ELSE Loaded(r.raw["name"],
                                TaskFlow([name \in DOMAIN r.raw["stages"] |->
                                             build_stage(r.raw["stages"][name])],
                                         Get(r.raw, "dead_ends", {})),
                                r.raw, loads)

\* loader.load_flow(task_type, flows_dir)
load_flow_from(dir, task_type) ==
    LET stem == FileOf(task_type)
    IN IF stem \notin DOMAIN dir THEN LoadFailed("FileNotFoundError", task_type, <<>>)
       ELSE LET r == resolve_inheritance(dir, dir[stem], 0)
                loads == <<stem>> \o r.loads
            IN IF r.error # "" THEN LoadFailed(r.error, r.detail, loads)
               ELSE IF validate(r.raw) # "" THEN LoadFailed("ValueError", validate(r.raw), loads)
               ELSE Loaded(r.raw["name"],
                           TaskFlow([name \in DOMAIN r.raw["stages"] |->
                                        build_stage(r.raw["stages"][name])],
                                    Get(r.raw, "dead_ends", {})),
                           r.raw, loads)

(***************************************************************************)
(* load_flow called on a flows directory.                                  *)
(***************************************************************************)
AskedTypes == {"base", "bugfix", "hotfix", "ghost"}

Load ==
    /\ \E task_type \in AskedTypes :
          q' = [asked |-> TRUE, op |-> "load_flow", task_type |-> task_type,
                merged |-> IF FileOf(task_type) \in DOMAIN files
                           THEN resolve_inheritance(files, files[FileOf(task_type)], 0)
                           ELSE ResolveFailed("FileNotFoundError", task_type, <<>>),
                result |-> load_flow_from(files, task_type)]
    /\ UNCHANGED <<files, flows, walk, storeVars>>

LoaderNext == Load

\* The keys a file may declare, each with the values it may give it.
Declares(key, values) == {EmptyDict} \cup {key :> v : v \in values}

(***************************************************************************)
(* SpecLoader: two files that differ in their top-level keys: name,        *)
(* description and stages declared or not, stages empty or not, inherits   *)
(* absent, empty, naming itself, the other file or a file that is not      *)
(* there.                                                                  *)
(***************************************************************************)
OneStage == "open" :> ("next" :> "closed")

TopDefs(stem) ==
    {a @@ b @@ c @@ d :
        a \in Declares("name", {stem}),
        b \in Declares("description", {"d"}),
        c \in Declares("stages", {EmptyDict, OneStage}),
        d \in Declares("inherits", {"", "_base", "bugfix", "ghost"})}

LoaderInit ==
    /\ files \in {a @@ b : a \in Declares("_base", TopDefs("_base")),
                              b \in Declares("bugfix", TopDefs("bugfix"))}
    /\ flows = FlowsDir /\ q = NoQuery /\ walk = NoWalk
    /\ StoreInit

SpecLoader == LoaderInit /\ [][LoaderNext]_vars

(***************************************************************************)
(* SpecMerge: the chain hotfix -> bugfix -> _base, any of the files there  *)
(* or not, the files differing in the stages they declare and in the       *)
(* fields each stage declares.                                             *)
(***************************************************************************)
ParentOf(stem) == IF stem = "hotfix" THEN "inherits" :> "bugfix"
                  ELSE IF stem = "bugfix" THEN "inherits" :> "_base" ELSE EmptyDict

OpenCfgs ==
    {a @@ b @@ c :
        a \in Declares("next", {None, "closed"}),
        b \in Declares("terminal", {TRUE}),
        c \in Declares("skip", {TRUE})}

StageDefs ==
    {a @@ b : a \in Declares("open", OpenCfgs),
              b \in Declares("closed", {"terminal" :> TRUE})}

MergeDefs(stem) ==
    {("name" :> stem) @@ ("description" :> "d") @@ ("stages" :> st) @@ ParentOf(stem) :
        st \in StageDefs}

MergeInit ==
    /\ files \in {a @@ b @@ c : a \in Declares("_base", MergeDefs("_base")),
                                  b \in Declares("bugfix", MergeDefs("bugfix")),
                                  c \in Declares("hotfix", MergeDefs("hotfix"))}
    /\ flows = FlowsDir /\ q = NoQuery /\ walk = NoWalk
    /\ StoreInit

SpecMerge == MergeInit /\ [][LoaderNext]_vars

(***************************************************************************)
(* Claims about the loader.                                                *)
(***************************************************************************)
AskedLoad == q.asked /\ q.op = "load_flow"

\* The files an inherits chain names, nearest first (for a chain that ends).
RECURSIVE ChainOf(_, _)
ChainOf(dir, stem) ==
    IF stem \notin DOMAIN dir THEN <<>>
    ELSE <<stem>> \o (IF Truthy(Get(dir[stem], "inherits", None))
                      THEN ChainOf(dir, dir[stem]["inherits"]) ELSE <<>>)

StagesOf(raw) == Get(raw, "stages", EmptyDict)

Least(S) == CHOOSE i \in S : \A j \in S : i <= j

\* C11: when a file and all its ancestors are there, the merged stages are
\* exactly the stages some file of the chain declares, and every field of
\* every merged stage is declared exactly when some file of the chain
\* declares it for that stage, with the value the nearest such file gives.
C11_MergeFieldByField ==
    (AskedLoad /\ q.merged.error = "") =>
        LET chain == ChainOf(files, FileOf(q.task_type))
            merged == StagesOf(q.merged.raw)
        IN /\ DOMAIN merged =
                 UNION {DOMAIN StagesOf(files[chain[i]]) : i \in 1..Len(chain)}
           /\ \A stage_name \in DOMAIN merged, key \in VALID_STAGE_KEYS :
                 LET declaring ==
                        {i \in 1..Len(chain) :
                            /\ stage_name \in DOMAIN StagesOf(files[chain[i]])
                            /\ key \in DOMAIN StagesOf(files[chain[i]])[stage_name]}
                 IN IF declaring = {} THEN key \notin DOMAIN merged[stage_name]
                    ELSE /\ key \in DOMAIN merged[stage_name]
                         /\ merged[stage_name][key] =
                              StagesOf(files[chain[Least(declaring)]])[stage_name][key]

\* C11 witness: hotfix loaded over bugfix over _base; open is declared by
\* all three, each with other fields, and hotfix sets next to null; closed is
\* declared by bugfix only.
C11_Witness ==
    /\ AskedLoad /\ q.task_type = "hotfix" /\ q.merged.error = ""
    /\ DOMAIN files = {"_base", "bugfix", "hotfix"}
    /\ files["_base"]["stages"] = "open" :> (("next" :> "closed") @@ ("terminal" :> TRUE))
    /\ files["bugfix"]["stages"] =
          ("open" :> ("skip" :> TRUE)) @@ ("closed" :> ("terminal" :> TRUE))
    /\ files["hotfix"]["stages"] = "open" :> ("next" :> None)
    /\ q.merged.raw["stages"] =
          ("open" :> (("next" :> None) @@ ("terminal" :> TRUE) @@ ("skip" :> TRUE)))
          @@ ("closed" :> ("terminal" :> TRUE))

\* C12: load_flow stops with an error as soon as the inherits chain names a
\* file already on the resolution path: no file is read twice in one load.
C12_FailsFastOnCycle ==
    AskedLoad => NoDuplicates(q.result.loads)

\* A stage that is neither terminal nor skip and has no next target.
LacksNext(stage) == ~stage.terminal /\ ~stage.skip /\ stage.next = None

\* C13: every flow load_flow returns has a next target on each stage that is
\* neither terminal nor skip, and a merged definition with a stage lacking
\* it is rejected with ValueError.
C13_NextDefined ==
    AskedLoad =>
        /\ q.result.error = "" =>
              \A stage_name \in DOMAIN q.result.flow.stages :
                  ~LacksNext(q.result.flow.stages[stage_name])
        /\ (q.merged.error = "" /\ validate(q.merged.raw) \notin {"missing required keys", "no stages"}
              /\ \E stage_name \in DOMAIN StagesOf(q.merged.raw) :
                    LacksNext(build_stage(StagesOf(q.merged.raw)[stage_name])))
              => q.result.error = "ValueError"

\* C14: with the inherits chain resolved, load_flow raises ValueError when
\* no file of the chain declares name, description or stages or when no
\* file declares a stage, and otherwise (the child omitting what an
\* ancestor declares) returns a flow, named as the nearest file that
\* declares a name says.
C14_ValidatesMerged ==
    (AskedLoad /\ q.merged.error = "") =>
        LET chain == ChainOf(files, FileOf(q.task_type))
            has(key) == \E i \in 1..Len(chain) : key \in DOMAIN files[chain[i]]
            no_stage == \A i \in 1..Len(chain) : DOMAIN StagesOf(files[chain[i]]) = {}
            named == {i \in 1..Len(chain) : "name" \in DOMAIN files[chain[i]]}
        IN IF (\E key \in REQUIRED_TOP_KEYS : ~has(key)) \/ no_stage
           THEN /\ q.result.error = "ValueError"
                /\ q.result.detail \in {"missing required keys", "no stages"}
                /\ q.result.flow = NoFlow
           ELSE /\ q.result.error = ""
                /\ q.result.name = files[chain[Least(named)]]["name"]
                /\ DOMAIN q.result.flow.stages # {}

\* C14 witness: bugfix declares neither name nor stages and inherits them
\* from _base, which declares no description; bugfix loads.
C14_Witness ==
    /\ AskedLoad /\ q.task_type = "bugfix"
    /\ DOMAIN files = {"_base", "bugfix"}
    /\ files["bugfix"] = ("description" :> "d") @@ ("inherits" :> "_base")
    /\ files["_base"] = ("name" :> "_base") @@ ("stages" :> OneStage)
    /\ q.result.error = "" /\ q.result.name = "_base"
    /\ DOMAIN q.result.flow.stages = {"open"}

\* The first parent along the inherits chain of `stem` that has no file, or
\* None when every parent named is there.
RECURSIVE MissingAncestor(_, _, _)
MissingAncestor(dir, stem, seen) ==
    LET parent_name == Get(dir[stem], "inherits", None)
    IN IF stem \in seen \/ ~Truthy(parent_name) THEN None
       ELSE IF parent_name \notin DOMAIN dir THEN parent_name
       ELSE MissingAncestor(dir, parent_name, seen \cup {stem})

\* C15: load_flow raises FileNotFoundError, about the name asked for, when
\* there is no file for it, and FileNotFoundError about the parent when the
\* file or one of its ancestors names a parent that has no file; it returns
\* no flow then.
C15_NotFound ==
    AskedLoad =>
        IF FileOf(q.task_type) \notin DOMAIN files
        THEN /\ q.result.error = "FileNotFoundError"
             /\ q.result.detail = q.task_type
             /\ q.result.flow = NoFlow
        ELSE MissingAncestor(files, FileOf(q.task_type), {}) # None =>
                /\ q.result.error = "FileNotFoundError"
                /\ q.result.detail = MissingAncestor(files, FileOf(q.task_type), {})
                /\ q.result.flow = NoFlow

\* C15 witness: bugfix inherits _base, _base inherits a file that is not
\* there; loading bugfix fails naming that file.
C15_Witness ==
    /\ AskedLoad /\ q.task_type = "bugfix"
    /\ DOMAIN files = {"_base", "bugfix"}
    /\ Get(files["bugfix"], "inherits", None) = "_base"
    /\ Get(files["_base"], "inherits", None) = "ghost"
    /\ REQUIRED_TOP_KEYS \subseteq DOMAIN files["bugfix"]
    /\ q.result.error = "FileNotFoundError" /\ q.result.detail = "ghost"

(***************************************************************************)
(* The flows the worker and precondition queries are asked on: a stage     *)
(* "open" that leads to "fixed" or to a name that is no stage, and a stage *)
(* "fixed" with every shape of workers rule: none, a flat list, a mapping  *)
(* with or without the class asked for and with or without `default`.      *)
(***************************************************************************)
ClassLists == {<<>>, <<"lead">>, <<"oracle", "recon">>}
ClassKeys == {"coder", "default"}
ClassMaps == UNION {[keys -> ClassLists] : keys \in SUBSET ClassKeys}
AllWorkerRules ==
    {NoWorkers} \cup {FlatWorkers(l) : l \in ClassLists}
                \cup {DictWorkers(m) : m \in ClassMaps}
RequiresLists == {<<>>, <<"tests_pass">>}
AskedClasses == {"coder", "pilot", "default", ""}
AskedNames == {"open", "fixed", "ghost", "abandoned"}

OpenStages ==
    [next : {"fixed", "ghost"}, fail : {None}, workers : WorkerRules,
     requires : RequiresLists, terminal : {FALSE}, skip : {FALSE}]
FixedStages ==
    [next : {None}, fail : {None}, workers : AllWorkerRules,
     requires : RequiresLists, terminal : BOOLEAN, skip : {FALSE}]

StageFlows ==
    [stages : {a @@ b : a \in Declares("open", OpenStages),
                        b \in Declares("fixed", FixedStages)},
     dead_ends : {{}, {"abandoned"}}]

StageQuery ==
    /\ \E name \in AskedNames, passed \in BOOLEAN, class_required \in AskedClasses :
          q' = Ask(flow, name, class_required, passed)
    /\ UNCHANGED <<files, flows, walk, storeVars>>

StageInit ==
    /\ files = NoFiles
    /\ \E f \in StageFlows : flows = [base |-> f]
    /\ q = NoQuery
    /\ walk = NoWalk
    /\ StoreInit

StageNext == StageQuery

SpecStage == StageInit /\ [][StageNext]_vars

\* C16: workers_for returns None for a name that is no stage and for a stage
\* without a workers rule; the flat list as it is, whatever class is asked
\* for; and for a mapping the entry of the class asked for if there is one,
\* else the `default` entry if there is one, else None.
C16_WorkersFor ==
    q.asked =>
        IF q.name \notin DOMAIN flow.stages THEN q.workers = NoList
        ELSE LET rule == flow.stages[q.name].workers
             IN /\ rule = NoWorkers => q.workers = NoList
                /\ rule.tag = "list" => q.workers = List(rule.val)
                /\ rule.tag = "dict" =>
                     /\ q.class_required \in DOMAIN rule.val =>
                            q.workers = List(rule.val[q.class_required])
                     /\ (q.class_required \notin DOMAIN rule.val
                           /\ "default" \in DOMAIN rule.val) =>
                            q.workers = List(rule.val["default"])
                     /\ (q.class_required \notin DOMAIN rule.val
                           /\ "default" \notin DOMAIN rule.val) =>
                            q.workers = NoList

\* C16 witness: a class with no entry of its own gets the `default` entry,
\* which differs from the entry of the class that has one.
C16_Witness ==
    /\ q.asked /\ q.name = "fixed" /\ q.class_required = "pilot"
    /\ "fixed" \in DOMAIN flow.stages
    /\ flow.stages["fixed"].workers =
          DictWorkers([coder |-> <<"oracle", "recon">>, default |-> <<"lead">>])
    /\ q.workers = List(<<"lead">>)

\* C17: transition returns None exactly when next_status returns None for
\* the same arguments; otherwise its to_status is that next status and its
\* eligible_classes are workers_for of the destination stage.
C17_Transition ==
    q.asked =>
        /\ (q.trans = NoTransition) <=> (q.next = None)
        /\ q.next # None =>
             /\ q.trans.to_status = q.next
             /\ q.trans.eligible_classes = workers_for(flow, q.next, q.class_required)

\* C17 witness: a move from a stage without a workers rule into a stage with
\* one; the classes returned are the destination's.
C17_Witness ==
    /\ q.asked /\ q.name = "open" /\ q.passed /\ q.next = "fixed"
    /\ IsStage(flow, "open") /\ IsStage(flow, "fixed")
    /\ flow.stages["open"].workers = NoWorkers
    /\ flow.stages["fixed"].workers = FlatWorkers(<<"lead">>)
    /\ q.workers = NoList
    /\ q.trans = [to_status |-> "fixed", eligible_classes |-> List(<<"lead">>)]

\* C18: asked about a name that is no stage of the flow, be it named nowhere
\* or named by a stage's next or among the dead ends, next_status, transition
\* and workers_for return None, requires the empty list, valid_transitions
\* the empty set and is_terminal False.
C18_UnknownStage ==
    (q.asked /\ ~IsStage(flow, q.name)) =>
        /\ q.next = None
        /\ q.trans = NoTransition
        /\ q.workers = NoList
        /\ q.requires = <<>>
        /\ q.valid = {}
        /\ q.terminal = FALSE

\* C18 witness: the name asked about is the dead end of a flow whose stage
\* open points at a name that is no stage either.
C18_Witness ==
    /\ q.asked /\ q.name = "abandoned"
    /\ flow.dead_ends = {"abandoned"}
    /\ IsStage(flow, "open") /\ flow.stages["open"].next = "ghost"
    /\ IsStage(flow, "fixed") /\ flow.stages["fixed"].requires = <<"tests_pass">>
    /\ q.valid = {} /\ q.requires = <<>> /\ q.next = None

\* C19: resolving what resolve_skip returned gives the same name again (for
\* a cyclic chain too, where both are None).
C19_Idempotent ==
    q.asked => resolve_skip(flow, q.resolved) = q.resolved

\* C19 witness: a skip stage resolved to the stage after it, which resolves
\* to itself.
C19_Witness ==
    /\ q.asked /\ q.name = "open"
    /\ IsSkipStage(flow, "open") /\ flow.stages["open"].next = "fixed"
    /\ IsStage(flow, "fixed") /\ ~flow.stages["fixed"].skip
    /\ flow.stages["fixed"].next = "open"
    /\ q.resolved = "fixed"

\* C20: from a stage that is not terminal and whose next is a skip stage with
\* a skip-resolved destination, valid_transitions holds that destination and
\* not the skipped stage.
C20_SkipsInValid ==
    (/\ q.asked /\ IsStage(flow, q.name)
     /\ ~flow.stages[q.name].terminal
     /\ IsSkipStage(flow, flow.stages[q.name].next)
     /\ resolve_skip(flow, flow.stages[q.name].next) # None) =>
        /\ resolve_skip(flow, flow.stages[q.name].next) \in q.valid
        /\ flow.stages[q.name].next \notin q.valid

(***************************************************************************)
(* SpecReload: load_flow called again and again on a directory that does   *)
(* not change, with router queries on the loaded base flow in between.     *)
(* flows keeps, per name, the TaskFlow its first successful load returned; *)
(* q.history lists the calls made so far.                                  *)
(***************************************************************************)
MaxOps == 4

ReloadTypes == {"base", "bugfix", "ghost"}

TwoStages == ("open" :> ("next" :> "fixed")) @@ ("fixed" :> ("terminal" :> TRUE))

ReloadDefs(stem) ==
    {("name" :> stem) @@ ("description" :> "d") @@ st @@ ParentOf(stem) :
        st \in Declares("stages", {OneStage, TwoStages})}

History == IF q.asked THEN q.history ELSE <<>>

Reload ==
    /\ Len(History) < MaxOps
    /\ \E task_type \in ReloadTypes :
          LET result == load_flow_from(files, task_type)
          IN /\ q' = [asked |-> TRUE, op |-> "load_flow", task_type |-> task_type,
                      result |-> result, history |-> Append(History, task_type)]
             /\ flows' = IF result.error = "" /\ task_type \notin DOMAIN flows
                         THEN flows @@ (task_type :> result.flow)
                         ELSE flows
    /\ UNCHANGED <<files, walk, storeVars>>

\* The router asked about the flow that load_flow("base") returned first.
ReloadQuery ==
    /\ Len(History) < MaxOps
    /\ "base" \in DOMAIN flows
    /\ \E name \in Targets, passed \in BOOLEAN, class_required \in Classes :
          q' = [Ask(flow, name, class_required, passed) EXCEPT !.asked = TRUE]
               @@ [op |-> "query", history |-> Append(History, "query")]
    /\ UNCHANGED <<files, flows, walk, storeVars>>

ReloadInit ==
    /\ files \in {a @@ b : a \in Declares("_base", ReloadDefs("_base")),
                           b \in Declares("bugfix", ReloadDefs("bugfix"))}
    /\ flows = <<>>
    /\ q = NoQuery
    /\ walk = NoWalk
    /\ StoreInit

ReloadNext == Reload \/ ReloadQuery

SpecReload == ReloadInit /\ [][ReloadNext]_vars

C22_BoundToFlow ==
    [][\A task_id \in DOMAIN tasks :
          LET before == tasks[task_id]
              f == flows[before.task_type]
          IN /\ task_id \in DOMAIN tasks'
             /\ tasks'[task_id].task_type = before.task_type
             /\ tasks'[task_id].project_id = before.project_id
             /\ tasks'[task_id].class_required = before.class_required
             /\ \A to_status \in ToStatuses, agent \in Agents \cup {None} :
                   transition_task("c1", task_id, to_status, agent) =>
                       (Last(transitions').valid = 1
                          <=> to_status \in valid_transitions(f, before.status))
             /\ \A agent \in Agents, passed \in BOOLEAN :
                   complete("c1", task_id, agent, passed) =>
                       /\ ret'["c1"].result =
                             transition(f, before.status,
                                        EmptyForNone(before.class_required), passed)
                       /\ tasks'[task_id].status =
                             IF next_status(f, before.status, passed) = None
                             THEN before.status
                             ELSE next_status(f, before.status, passed)
      ]_vars

\* C22 witness: a hotfix task was moved to `fixed`, which the hotfix flow
\* does not allow from `open` (the bugfix flow does), and then completed
\* over the hotfix flow's skip stages into `closed`.
C22_Witness ==
    /\ "T1" \in DOMAIN tasks
    /\ tasks["T1"].task_type = "hotfix" /\ tasks["T1"].class_required = "coder"
    /\ tasks["T1"].status = "closed"
    /\ Len(transitions) = 2
    /\ transitions[1].to_status = "fixed" /\ transitions[1].valid = 0
    /\ transitions[2].from_status = "fixed" /\ transitions[2].to_status = "closed"
    /\ ret["c1"].op = "complete"

(***************************************************************************)
(* SpecInherit: the chain hotfix -> bugfix -> _base, any of the files      *)
(* there or not, each declaring or not its name, description, stages and   *)
(* dead_ends.                                                              *)
(***************************************************************************)
DeadEndLists == {{}, {"abandoned"}, {"parked"}}

InheritDefs(stem) ==
    {a @@ b @@ c @@ d @@ ParentOf(stem) :
        a \in Declares("name", {stem}),
        b \in Declares("description", {stem}),
        c \in Declares("stages", {OneStage}),
        d \in Declares("dead_ends", DeadEndLists)}

InheritInit ==
    /\ files \in {a @@ b @@ c : a \in Declares("_base", InheritDefs("_base")),
                                  b \in Declares("bugfix", InheritDefs("bugfix")),
                                  c \in Declares("hotfix", InheritDefs("hotfix"))}
    /\ flows = FlowsDir /\ q = NoQuery /\ walk = NoWalk
    /\ StoreInit

SpecInherit == InheritInit /\ [][LoaderNext]_vars

\* C23: the name, the description and the dead_ends of a loaded flow are
\* those of the nearest file of its inherits chain that declares them, its
\* own file first; dead_ends that no file declares are empty.
C23_TopLevelOverride ==
    (AskedLoad /\ q.result.error = "") =>
        LET chain == ChainOf(files, FileOf(q.task_type))
            declaring(key) == {i \in 1..Len(chain) : key \in DOMAIN files[chain[i]]}
            nearest(key) == files[chain[Least(declaring(key))]][key]
        IN /\ q.result.name = nearest("name")
           /\ q.result.raw["description"] = nearest("description")
           /\ q.result.flow.dead_ends =
                 IF declaring("dead_ends") = {} THEN {} ELSE nearest("dead_ends")

\* C23 witness: hotfix and bugfix declare their names and no dead_ends,
\* _base declares dead_ends; the loaded hotfix flow has its own name and
\* _base's dead_ends.
C23_Witness ==
    /\ AskedLoad /\ q.task_type = "hotfix" /\ q.result.error = ""
    /\ DOMAIN files = {"_base", "bugfix", "hotfix"}
    /\ "name" \in DOMAIN files["hotfix"] /\ "name" \in DOMAIN files["bugfix"]
    /\ "name" \in DOMAIN files["_base"]
    /\ "dead_ends" \notin DOMAIN files["hotfix"]
    /\ "dead_ends" \notin DOMAIN files["bugfix"]
    /\ Get(files["_base"], "dead_ends", {}) = {"abandoned"}
    /\ q.result.name = "hotfix"
    /\ q.result.flow.dead_ends = {"abandoned"}

\* C24: a complete call on a task whose flow gives no next status for the
\* task's status and the outcome passed returns None and leaves the tables
\* as they were: no task row and no record is changed or added.
C24_NoTransitionNoChange ==
    [][\A task_id \in DOMAIN tasks, agent \in Agents, passed \in BOOLEAN :
          (/\ next_status(flows[tasks[task_id].task_type], tasks[task_id].status, passed) = None
           /\ complete("c1", task_id, agent, passed)) =>
              /\ ret'["c1"].op = "complete" /\ ret'["c1"].raised = ""
              /\ ret'["c1"].result = NoTransition /\ ~ret'["c1"].moved
              /\ tasks' = tasks
              /\ transitions' = transitions
              /\ projects' = projects
      ]_vars

\* C24 witness: a triage task was completed from open to fixed and from
\* fixed to the stage named by the empty string, which the flow does not
\* have, with nobody assigned; the third complete returned None.
C24_Witness ==
    /\ "T1" \in DOMAIN tasks /\ tasks["T1"].task_type = "triage"
    /\ tasks["T1"].status = "" /\ tasks["T1"].assigned_to = None
    /\ Len(transitions) = 2 /\ transitions[2].to_status = ""
    /\ ret["c1"].op = "complete" /\ ret["c1"].raised = "" /\ ~ret["c1"].moved

\* C25: for a terminal stage next_status and transition are None whether
\* passed or failed and valid_transitions is empty, dead ends included; and
\* complete calls, one or two in a row, passed or failed, leave a task that
\* rests in a terminal stage, and the log, as they are.
C25_TerminalAbsorbing ==
    (q.asked /\ IsStage(flow, q.name) /\ flow.stages[q.name].terminal) =>
        LET db == TaskAt(q.name, q.class_required)
        IN /\ q.next = None /\ q.trans = NoTransition
           /\ \A passed \in BOOLEAN :
                 /\ next_status(flow, q.name, passed) = None
                 /\ transition(flow, q.name, q.class_required, passed) = NoTransition
           /\ q.valid = {}
           /\ q.completed = db
           /\ \A first \in BOOLEAN, second \in BOOLEAN :
                 complete_db(complete_db(db, "T1", "fighter", first, 0),
                             "T1", "fighter", second, 0) = db

\* C25 witness: a terminal stage that declares next and fail, in a flow with
\* a dead end, asked about: nothing leads out of it.
C25_Witness ==
    /\ q.asked /\ q.name = "open" /\ IsStage(flow, "open") /\ IsStage(flow, "fixed")
    /\ flow.stages["open"].terminal /\ ~flow.stages["open"].skip
    /\ flow.stages["open"].next = "fixed" /\ flow.stages["open"].fail = "fixed"
    /\ ~flow.stages["fixed"].skip
    /\ flow.dead_ends = {"abandoned"}
    /\ q.valid = {} /\ q.next = None
    /\ q.completed.tasks["T1"].status = "open" /\ q.completed.transitions = <<>>

\* C26: transition_task and complete called with an id no task has raise
\* ValueError ("Task ... not found") and leave every task row and the log
\* as they were.
C26_NotFound ==
    [][\A task_id \in LogTaskIds \ DOMAIN tasks :
          /\ \A to_status \in LogToStatuses :
                transition_task("c1", task_id, to_status, None) =>
                    /\ ret'["c1"] = Raised("transition_task", task_id, "ValueError")
                    /\ tasks' = tasks /\ transitions' = transitions
          /\ \A passed \in BOOLEAN :
                complete("c1", task_id, "fighter", passed) =>
                    /\ ret'["c1"] = Raised("complete", task_id, "ValueError")
                    /\ tasks' = tasks /\ transitions' = transitions
      ]_vars

\* C26 witness: T1 is there and has moved twice, T2 is not there, and a call
\* on T2 raised.
C26_Witness ==
    /\ DOMAIN tasks = {"T1"} /\ Len(transitions) = 2
    /\ tasks["T1"].status = "closed"
    /\ ret["c1"].task_id = "T2" /\ ret["c1"].raised = "ValueError"
    /\ ret["c1"].op = "transition_task"

(***************************************************************************)
(* SpecAssign: one bugfix task and two agents; transition_task is called   *)
(* with either agent or with none, complete with either agent.             *)
(***************************************************************************)
AssignAgents == {"fighter", "oracle"}
AssignToStatuses == {"fixed", "abandoned"}

AssignNext ==
    \/ create_project("c1", "proj")
    \/ create_task("c1", "T1", "proj", "bugfix", None)
    \/ \E to_status \in AssignToStatuses, agent \in AssignAgents \cup {None} :
          transition_task("c1", "T1", to_status, agent)
    \/ \E agent \in AssignAgents, passed \in BOOLEAN :
          complete("c1", "T1", agent, passed)

SpecAssign == Init /\ [][AssignNext]_vars

\* C27: a task is created without an assignee; transition_task with an agent
\* makes that agent the assignee; transition_task without an agent and
\* complete with any agent leave the assignee as it is, complete writing its
\* agent to the record only; and the assignee changes in no other step.
C27_Assignee ==
    [][/\ \A task_id \in DOMAIN tasks' \ DOMAIN tasks :
             tasks'[task_id].assigned_to = None
       /\ \A task_id \in DOMAIN tasks :
             /\ \A to_status \in AssignToStatuses, agent \in AssignAgents :
                   transition_task("c1", task_id, to_status, agent) =>
                       /\ tasks'[task_id].assigned_to = agent
                       /\ Last(transitions').agent = agent
             /\ \A to_status \in AssignToStatuses :
                   transition_task("c1", task_id, to_status, None) =>
                       /\ tasks'[task_id].assigned_to = tasks[task_id].assigned_to
                       /\ Last(transitions').agent = None
             /\ \A agent \in AssignAgents, passed \in BOOLEAN :
                   complete("c1", task_id, agent, passed) =>
                       /\ tasks'[task_id].assigned_to = tasks[task_id].assigned_to
                       /\ ret'["c1"].moved => Last(transitions').agent = agent
             /\ tasks'[task_id].assigned_to # tasks[task_id].assigned_to =>
                   \E to_status \in AssignToStatuses, agent \in AssignAgents :
                       transition_task("c1", task_id, to_status, agent)
      ]_vars

\* C27 witness: oracle was made the assignee by transition_task, then
\* transition_task ran without an agent and complete ran for fighter; the
\* assignee is still oracle and the last record names fighter.
C27_Witness ==
    /\ "T1" \in DOMAIN tasks /\ tasks["T1"].assigned_to = "oracle"
    /\ Len(transitions) = 3
    /\ transitions[1].agent = "oracle"
    /\ transitions[2].agent = None
    /\ transitions[3].agent = "fighter" /\ transitions[3].to_status = "closed"
    /\ ret["c1"].op = "complete" /\ ret["c1"].moved

(***************************************************************************)
(* cli.py claim-task, each invocation a process with a connection of its   *)
(* own: the command reads the task, checks its status, and calls           *)
(* transition_task, which reads the task again and writes.  SpecClaim runs *)
(* two such processes, one statement at a time.                            *)
(***************************************************************************)
ClaimTaskIds == {"T1", "T2"}
ClaimAgent(c) == IF c = "c1" THEN "fighter" ELSE "thief"

\* _output({"error": ...}): the message goes to stderr, the exit code is 1.
CliError(op, task_id) == Raised(op, task_id, "exit 1")

\* task = db.get_task(task_id) and the two checks of claim_task.
claim_task_check(c, task_id, agent) ==
    /\ call[c].pc = "idle"
    /\ Len(transitions) + Cardinality(InFlight) < MaxRequests
    /\ IF task_id \notin DOMAIN View(c).tasks \/ View(c).tasks[task_id].status # "open"
       THEN /\ ret' = [ret EXCEPT ![c] = CliError("claim_task", task_id)]
            /\ UNCHANGED call
       ELSE /\ call' = [call EXCEPT ![c] =
                          [pc |-> "claim", op |-> "claim_task", task_id |-> task_id,
                           to_status |-> "assigned", agent |-> agent, assign |-> agent,
                           from_status |-> None, valid |-> 0, result |-> NoTransition]]
            /\ UNCHANGED ret
    /\ UNCHANGED <<projects, tasks, transitions, work, commits, now, routerVars>>

\* db.transition_task(task_id, "assigned", agent=agent) up to its first write:
\* the task is read again.
claim_task_transition(c) ==
    /\ call[c].pc = "claim"
    /\ IF call[c].task_id \notin DOMAIN View(c).tasks
       THEN /\ ret' = [ret EXCEPT ![c] = Raised("claim_task", call[c].task_id, "ValueError")]
            /\ call' = [call EXCEPT ![c] = Idle]
       ELSE LET l == transition_task_locals(View(c), call[c].task_id, call[c].to_status)
            IN /\ call' = [call EXCEPT ![c].pc = "update",
                                       ![c].from_status = l.from_status,
                                       ![c].valid = l.valid]
               /\ UNCHANGED ret
    /\ UNCHANGED <<projects, tasks, transitions, work, commits, now, routerVars>>

ClaimStep(c) ==
    \/ \E task_id \in ClaimTaskIds : claim_task_check(c, task_id, ClaimAgent(c))
    \/ claim_task_transition(c)
    \/ execute_update(c)
    \/ execute_insert(c)
    \/ commit(c)

ClaimNext == \E c \in Conns : ClaimStep(c)

SpecClaim == ConcInit /\ [][ClaimNext]_vars

(***************************************************************************)
(* cli.py claim-task, one invocation at a time: SpecCli runs the command   *)
(* to its end between other calls of the store.                            *)
(***************************************************************************)

\* claim_task without the check of the status.
claim_task_any_status(c, task_id, agent) ==
    /\ LockFree(c)
    /\ Len(View(c).transitions) < MaxLog
    /\ IF task_id \notin DOMAIN View(c).tasks
       THEN /\ ret' = [ret EXCEPT ![c] = CliError("claim_task", task_id)]
            /\ NoWrite
       ELSE LET l == transition_task_locals(View(c), task_id, "assigned")
                updated == update_task(View(c), task_id, "assigned", agent)
                inserted == insert_transition(updated, task_id, l.from_status,
                                              "assigned", agent, l.valid, now)
            IN /\ Commit(c, inserted, <<Attempt(c, task_id, "assigned")>>)
               /\ ret' = [ret EXCEPT ![c] =
                            [Returned("claim_task", task_id) EXCEPT !.moved = TRUE]]
    /\ UNCHANGED <<now, call, routerVars>>

claim_task(c, task_id, agent) ==
    /\ LockFree(c)
    /\ Len(View(c).transitions) < MaxLog
    /\ IF task_id \notin DOMAIN View(c).tasks
       THEN /\ ret' = [ret EXCEPT ![c] = CliError("claim_task", task_id)]
            /\ NoWrite
       ELSE IF View(c).tasks[task_id].status # "open"
       THEN /\ ret' = [ret EXCEPT ![c] = CliError("claim_task", task_id)]
            /\ NoWrite
       ELSE LET l == transition_task_locals(View(c), task_id, "assigned")
                updated == update_task(View(c), task_id, "assigned", agent)
                inserted == insert_transition(updated, task_id, l.from_status,
                                              "assigned", agent, l.valid, now)
            IN /\ Commit(c, inserted, <<Attempt(c, task_id, "assigned")>>)
               /\ ret' = [ret EXCEPT ![c] =
                            [Returned("claim_task", task_id) EXCEPT !.moved = TRUE]]
    /\ UNCHANGED <<now, call, routerVars>>

CliNext ==
    \/ create_project("c1", "proj")
    \/ \E task_type \in TaskTypes : create_task("c1", "T1", "proj", task_type, None)
    \/ \E task_id \in ClaimTaskIds, agent \in AssignAgents :
          claim_task("c1", task_id, agent)
    \/ \E passed \in BOOLEAN : complete("c1", "T1", "fighter", passed)
    \/ transition_task("c1", "T1", "open", None)

SpecCli == Init /\ [][CliNext]_vars

\* C28: claim-task on a task whose status is open moves it to assigned,
\* makes the claiming agent the assignee and logs the move from open to
\* assigned; on a missing task or a task in another status it ends with an
\* error and leaves the task rows and the log as they were.
C28_ClaimOnlyOpen ==
    [][\A task_id \in ClaimTaskIds, agent \in AssignAgents :
          claim_task("c1", task_id, agent) =>
              IF task_id \in DOMAIN tasks /\ tasks[task_id].status = "open"
              THEN /\ ret'["c1"].op = "claim_task" /\ ret'["c1"].raised = ""
                   /\ tasks'[task_id].status = "assigned"
                   /\ tasks'[task_id].assigned_to = agent
                   /\ Len(transitions') = Len(transitions) + 1
                   /\ Last(transitions').task_id = task_id
                   /\ Last(transitions').from_status = "open"
                   /\ Last(transitions').to_status = "assigned"
                   /\ Last(transitions').agent = agent
              ELSE /\ ret'["c1"] = CliError("claim_task", task_id)
                   /\ tasks' = tasks /\ transitions' = transitions
      ]_vars

\* C28 witness: fighter claimed the open task, then oracle's claim of the
\* same task ended with an error; the task is still assigned to fighter and
\* the log holds the one move.
C28_Witness ==
    /\ "T1" \in DOMAIN tasks
    /\ tasks["T1"].status = "assigned" /\ tasks["T1"].assigned_to = "fighter"
    /\ Len(transitions) = 1 /\ transitions[1].agent = "fighter"
    /\ transitions[1].from_status = "open" /\ transitions[1].to_status = "assigned"
    /\ ret["c1"] = CliError("claim_task", "T1")

\* C29: for a stage of the flow that is not terminal, next_status, when it
\* is not None, is in valid_transitions of that stage, whether passed or
\* failed; and every record complete writes with valid = 1 has its to_status
\* in valid_transitions of its from_status.
C29_RoutingAgrees ==
    (q.asked /\ IsStage(flow, q.name) /\ ~flow.stages[q.name].terminal) =>
        /\ q.next # None => q.next \in q.valid
        /\ \A i \in 1..Len(q.completed.transitions) :
              LET row == q.completed.transitions[i]
              IN row.valid = 1 =>
                    row.to_status \in valid_transitions(flow, row.from_status)

C31_NoStaleRead ==
    [][\A c \in Conns :
          (call[c].pc = "commit" /\ commit(c)) =>
              LET row == Last(transitions')
                  held == tasks[row.task_id].status
                  f == flows[tasks[row.task_id].task_type]
              IN /\ row.from_status = held
                 /\ call[c].op = "transition_task" =>
                       (row.valid = 1 <=> row.to_status \in valid_transitions(f, held))
      ]_vars

\* C32: of the claim-task calls that two processes make for the same task,
\* at most one goes through: the log of a task never holds two moves to
\* assigned, and the two processes never both hold a successful claim of
\* the same task.
C32_OneClaimWins ==
    /\ \A task_id \in DOMAIN tasks :
          Cardinality({i \in 1..Len(transitions) :
                          /\ transitions[i].task_id = task_id
                          /\ transitions[i].to_status = "assigned"}) <= 1
    /\ ~(/\ ret["c1"].op = "claim_task" /\ ret["c1"].moved
         /\ ret["c2"].op = "claim_task" /\ ret["c2"].moved
         /\ ret["c1"].task_id = ret["c2"].task_id)

(***************************************************************************)
(* SpecSkip: load_flow on one file whose stage open leads to closed or to  *)
(* a stage review that is marked skip or not and has a next or not.        *)
(***************************************************************************)
ReviewCfgs ==
    {a @@ b : a \in Declares("skip", {TRUE}),
              b \in Declares("next", {"closed", "review", "open"})}

SkipStageDefs ==
    {a @@ b @@ c : a \in Declares("open", Declares("next", {None, "review", "closed"})),
                   b \in Declares("review", ReviewCfgs),
                   c \in Declares("closed", {"terminal" :> TRUE})}

SkipInit ==
    /\ files \in {"bugfix" :> (("name" :> "bugfix") @@ ("description" :> "d")
                                @@ ("stages" :> st)) : st \in SkipStageDefs}
    /\ flows = FlowsDir /\ q = NoQuery /\ walk = NoWalk
    /\ StoreInit

SpecSkip == SkipInit /\ [][LoaderNext]_vars

\* C33: in every flow that load_flow returns, next_status(stage, passed =
\* True) is not None for every stage that is neither terminal nor skip.
C33_NoStuckSuccess ==
    (AskedLoad /\ q.result.error = "") =>
        \A stage_name \in DOMAIN q.result.flow.stages :
            LET stage == q.result.flow.stages[stage_name]
            IN (~stage.terminal /\ ~stage.skip) =>
                   next_status(q.result.flow, stage_name, TRUE) # None

(***************************************************************************)
(* loader.list_flows, and SpecList: the names listed for a directory are   *)
(* loaded from that directory.                                             *)
(***************************************************************************)
ListStems == {"_base", "_draft", "base", "bugfix", "hotfix"}

\* The place of a file name in sorted(flows_path.glob("*.yaml")): "_" sorts
\* before the lower-case letters.
PathRank(stem) ==
    CASE stem = "_base" -> 1
      [] stem = "_draft" -> 2
      [] stem = "base" -> 3
      [] stem = "bugfix" -> 4
      [] OTHER -> 5

\* name[1:] if name.startswith("_") else name
StripUnderscore(stem) ==
    CASE stem = "_base" -> "base"
      [] stem = "_draft" -> "draft"
      [] OTHER -> stem

RECURSIVE SortedStems(_)
SortedStems(stems) ==
    IF stems = {} THEN <<>>
    ELSE LET first == CHOOSE a \in stems : \A b \in stems : PathRank(a) <= PathRank(b)
         IN <<first>> \o SortedStems(stems \ {first})

list_flows(dir) ==
    LET paths == SortedStems(DOMAIN dir)
    IN [i \in 1..Len(paths) |-> StripUnderscore(paths[i])]

ListFlows ==
    /\ q' = [asked |-> TRUE, op |-> "list_flows", names |-> list_flows(files)]
    /\ UNCHANGED <<files, flows, walk, storeVars>>

\* load_flow of a name that list_flows has just returned.
LoadListed ==
    /\ q.asked /\ q.op = "list_flows"
    /\ \E i \in 1..Len(q.names) :
          q' = [asked |-> TRUE, op |-> "load_listed", task_type |-> q.names[i],
                result |-> load_flow_from(files, q.names[i])]
    /\ UNCHANGED <<files, flows, walk, storeVars>>

ListInit ==
    /\ \E stems \in SUBSET ListStems :
          files = [stem \in stems |->
                     ("name" :> stem) @@ ("description" :> "d") @@ ("stages" :> OneStage)]
    /\ flows = FlowsDir /\ q = NoQuery /\ walk = NoWalk
    /\ StoreInit

ListNext == ListFlows \/ LoadListed

SpecList == ListInit /\ [][ListNext]_vars

\* C34: load_flow of a name that list_flows returned for the same directory
\* does not raise FileNotFoundError.
C34_ListedLoads ==
    (q.asked /\ q.op = "load_listed") => q.result.error # "FileNotFoundError"

=============================================================================
